---- MODULE Spec2Model ----
(***************************************************************************)
(* CursorManager (src/demo/index.js): a cursor overlay that follows the    *)
(* element carrying the focus class.  The model holds the engine's fields, *)
(* the overlay's inline style, the window's scroll offset, the part of the *)
(* document the engine reads (class lists, offsetParent chains, rects) and *)
(* the MutationObserver record queues.                                     *)
(*                                                                         *)
(* Lengths are whole CSS pixels, except the overlay's computed border      *)
(* widths, kept in half pixels so that parseInt has something to cut.      *)
(***************************************************************************)
EXTENDS Integers, Sequences, FiniteSets, TLC

VARIABLES
    marked,           \* marked[e]: e.classList.contains(focusClassName_)
    status,           \* status[e], e in Movable: "live", "hidden" or "detached"
    host,             \* the host's styling of the overlay and its CSS parser
    scrollY,          \* window.pageYOffset
    cursor,           \* cursor_: inline style fields and whether root_ holds it
    focused_,         \* this.focused_
    freezed_,         \* this.freezed_
    observer_,        \* this.observer_: index into observers, 0 for null
    observers,        \* every MutationObserver the engine created, oldest first
    notifying,        \* a notify-observers checkpoint is under way
    eventListeners_,  \* this.eventListeners_
    last              \* what the last step did (history, read by the properties)

vars == <<marked, status, host, scrollY, cursor, focused_, freezed_,
          observer_, observers, notifying, eventListeners_, last>>

-----------------------------------------------------------------------------
(* Bounds of the model *)

\* start() calls in one behaviour (each creates one observer)
MaxStarts == 2

\* mutation records an observer holds before the host delivers them
MaxQueue == 2

\* entries of eventListeners_
MaxListeners == 2

\* entries of eventListeners_ while the page is followed in full
MaxPageListeners == 1

-----------------------------------------------------------------------------
(* The document *)

Null == "null"
Body == "body"
Cursor == "cursor"

\* e1 and e2 are inside root_ (e2 inside e1); e3 is in the document, outside root_
Elems == {"e1", "e2", "e3"}
InRoot == {"e1", "e2"}

\* the elements the page hides (display:none), removes and puts back
Movable == {"e1"}
StatusOf(e) == IF e \in Movable THEN status[e] ELSE "live"

\* document order, as querySelector walks it
DocOrder == <<"e1", "e2", "e3">>

\* the DOM parent of an element
ParentOf(e) == IF e = "e2" THEN "e1" ELSE Body

RECURSIVE AncestorsOrSelf(_)
AncestorsOrSelf(e) == IF e = Body THEN {} ELSE {e} \cup AncestorsOrSelf(ParentOf(e))

\* e is connected to the document
InDocument(e) == \A a \in AncestorsOrSelf(e) : StatusOf(a) # "detached"

\* e generates a box (nothing on its ancestor chain is detached or display:none)
Rendered(e) == \A a \in AncestorsOrSelf(e) : StatusOf(a) = "live"

\* element.offsetParent: null when the element generates no box
OffsetParent(e) == IF Rendered(e) THEN ParentOf(e) ELSE Null

\* the rectangle of a rendered element, in document coordinates
LayoutRect(e) ==
    CASE e = "e1" -> [top |-> 100, left |-> 50, width |-> 80, height |-> 40]
      [] e = "e2" -> [top |-> 110, left |-> 60, width |-> 20, height |-> 20]
      [] e = "e3" -> [top |-> 250, left |-> 10, width |-> 40, height |-> 20]

\* window.innerHeight
InnerHeight == 200

\* window.pageXOffset: the document does not scroll sideways
PageXOffset == 0

\* the largest vertical scroll offset of the document
ScrollMax == 100

\* elem.getBoundingClientRect(): viewport coordinates; all zero without a box
BoundingClientRect(e, y) ==
    IF Rendered(e)
    THEN [top |-> LayoutRect(e).top - y, left |-> LayoutRect(e).left - PageXOffset,
          width |-> LayoutRect(e).width, height |-> LayoutRect(e).height]
    ELSE [top |-> 0, left |-> 0, width |-> 0, height |-> 0]

\* document.querySelector('.' + focusClassName_): first match in document order
RECURSIVE FirstMarkedFrom(_)
FirstMarkedFrom(i) ==
    IF i > Len(DocOrder) THEN Null
    ELSE IF InDocument(DocOrder[i]) /\ marked[DocOrder[i]] THEN DocOrder[i]
    ELSE FirstMarkedFrom(i + 1)

querySelector == FirstMarkedFrom(1)

\* target.classList.contains(focusClassName_); the overlay never carries it
HasMarker(t) == t \in Elems /\ marked[t]

-----------------------------------------------------------------------------
(* Module-level helpers of index.js *)

getAbsoluteElementRect(elem, y) ==
    LET r == BoundingClientRect(elem, y)
    IN  [left |-> r.left + PageXOffset, top |-> r.top + y,
         width |-> r.width, height |-> r.height]

RECURSIVE isInDocumentBody(_)
isInDocumentBody(element) ==
    IF element = Null THEN FALSE
    ELSE IF element = Body THEN TRUE
    ELSE IF OffsetParent(element) = Null THEN FALSE
    ELSE isInDocumentBody(OffsetParent(element))

-----------------------------------------------------------------------------
(* Values of the host *)

\* parseInt(s, 10) of a computed length: "" gives NaN (<<>>), "1.5px" gives 1.
\* A computed length is <<>> for "" and <<h>> for h half pixels.
parseInt(s) == IF s = <<>> THEN <<>> ELSE <<s[1] \div 2>>

\* getComputedStyle(cursor_, '').borderTopWidth / borderLeftWidth: the style
\* of an element that is not connected is empty
ComputedBorderTopWidth(c) == IF c.inRoot THEN <<host.borderTop>> ELSE <<>>
ComputedBorderLeftWidth(c) == IF c.inRoot THEN <<host.borderLeft>> ELSE <<>>

\* cursor_.style.transitionDuration = v.  '0' carries no unit and is no <time>;
\* a parser that follows the grammar drops the declaration, a lenient one
\* reads it as 0s.  A value read back from the style sets itself.
SetTransitionDuration(c, v) ==
    IF v = "0"
    THEN IF host.unitlessZero THEN [c EXCEPT !.transitionDuration = "0s"] ELSE c
    ELSE [c EXCEPT !.transitionDuration = v]

\* window.scroll({left, top, behavior}): the offset is clamped to the document
ClampScroll(top) == IF top < 0 THEN 0 ELSE IF top > ScrollMax THEN ScrollMax ELSE top

-----------------------------------------------------------------------------
(* CursorManager.  A method is an operator from the machine m before the    *)
(* call to the machine after it; m holds the engine's fields, the window's  *)
(* scroll offset and the trace of the call.                                 *)

FOCUS_UPDATED == "focusUpdated"

\* the machine of the current state, with an empty trace
Machine ==
    [cursor |-> cursor, scrollY |-> scrollY, focused_ |-> focused_,
     freezed_ |-> freezed_, observer_ |-> observer_, observers |-> observers,
     eventListeners_ |-> eventListeners_,
     calls |-> <<>>, emits |-> <<>>, invoked |-> <<>>, threw |-> FALSE]

Called(m, name) == [m EXCEPT !.calls = Append(@, name)]

hideCursor_(m) == [m EXCEPT !.cursor.display = "none"]

showCursor_(m) == [m EXCEPT !.cursor.display = ""]

scrollIntoView_(m, rect) ==
    [m EXCEPT !.scrollY =
        ClampScroll((2 * rect.top - InnerHeight + rect.height) \div 2)]

\* an invalid translate3d(NaNpx, NaNpx, 0) leaves the declaration as it was
moveCursorTo_(m, rect) ==
    LET borserTop == parseInt(ComputedBorderTopWidth(m.cursor))
        borserLeft == parseInt(ComputedBorderLeftWidth(m.cursor))
    IN  IF borserTop = <<>> \/ borserLeft = <<>> THEN m
        ELSE [m EXCEPT !.cursor.transform =
                  <<rect.left - borserLeft[1], rect.top - borserTop[1]>>]

resizeCursorTo_(m, rect) ==
    [m EXCEPT !.cursor.width = <<rect.width>>, !.cursor.height = <<rect.height>>]

\* the effective target of place() and move()
EffectiveTarget(m) ==
    IF isInDocumentBody(m.focused_) THEN m.focused_ ELSE querySelector

\* place without the last line, which puts the transition back
placeNoRestore(m0) ==
    LET m == Called(m0, "place")
        focused == EffectiveTarget(m)
    IN  IF focused = Null THEN hideCursor_(m)
        ELSE
          LET m1 == [m EXCEPT !.cursor = SetTransitionDuration(@, "0")]
              r  == getAbsoluteElementRect(focused, m1.scrollY)
              m2 == moveCursorTo_(resizeCursorTo_(scrollIntoView_(m1, r), r), r)
          IN  IF ~HasMarker(focused) THEN hideCursor_(m2) ELSE showCursor_(m2)

\* place that keeps the element it resolved as the tracked element
placeRecordsFallback(m0) ==
    LET m == Called(m0, "place")
        focused == EffectiveTarget(m)
    IN  IF focused = Null THEN hideCursor_(m)
        ELSE
          LET origTransitionDuration == m.cursor.transitionDuration
              m1 == [m EXCEPT !.cursor = SetTransitionDuration(@, "0"),
                              !.focused_ = focused]
              r  == getAbsoluteElementRect(focused, m1.scrollY)
              m2 == moveCursorTo_(resizeCursorTo_(scrollIntoView_(m1, r), r), r)
              m3 == IF ~HasMarker(focused) THEN hideCursor_(m2) ELSE showCursor_(m2)
          IN  [m3 EXCEPT !.cursor = SetTransitionDuration(@, origTransitionDuration)]

place(m0) ==
    LET m == Called(m0, "place")
        focused == EffectiveTarget(m)
    IN  IF focused = Null THEN hideCursor_(m)
        ELSE
          LET origTransitionDuration == m.cursor.transitionDuration
              m1 == [m EXCEPT !.cursor = SetTransitionDuration(@, "0")]
              r  == getAbsoluteElementRect(focused, m1.scrollY)
              m2 == moveCursorTo_(resizeCursorTo_(scrollIntoView_(m1, r), r), r)
              m3 == IF ~HasMarker(focused) THEN hideCursor_(m2) ELSE showCursor_(m2)
          IN  [m3 EXCEPT !.cursor = SetTransitionDuration(@, origTransitionDuration)]

move(m0) ==
    LET m == Called(m0, "move")
        focused == EffectiveTarget(m)
    IN  IF focused = Null \/ ~HasMarker(focused) THEN hideCursor_(m)
        ELSE
          LET m1 == showCursor_(m)
              r  == getAbsoluteElementRect(focused, m1.scrollY)
          IN  moveCursorTo_(resizeCursorTo_(scrollIntoView_(m1, r), r), r)

\* focus that snaps in every case
focusAlwaysPlace(m0) == place(Called(m0, "focus"))

focus(m0) ==
    LET m == Called(m0, "focus")
    IN  IF m.focused_ = Null \/ m.cursor.display = "none" THEN place(m) ELSE move(m)

-----------------------------------------------------------------------------
(* Observation *)

\* t is in the subtree of root_ when its class attribute is set
Observed(t, c) ==
    IF t = Cursor THEN c.inRoot ELSE t \in InRoot /\ InDocument(t)

\* queue an attribute record for t with every registered observer of root_
QueueRecord(obs, t) ==
    [i \in DOMAIN obs |->
        IF obs[i].connected THEN [obs[i] EXCEPT !.queue = Append(@, t)] ELSE obs[i]]

\* no observer's queue has room for less than n more records
HasRoom(obs, n) == \A i \in DOMAIN obs : Len(obs[i].queue) + n <= MaxQueue

\* FirstHolder as a loop without its break: the last record that carries the marker
RECURSIVE LastHolder(_)
LastHolder(mutationRecords) ==
    IF mutationRecords = <<>> THEN Null
    ELSE IF LastHolder(Tail(mutationRecords)) # Null
         THEN LastHolder(Tail(mutationRecords))
    ELSE IF HasMarker(Head(mutationRecords)) THEN Head(mutationRecords)
    ELSE Null

\* the for..of loop of the callback: the first record whose target carries the
\* marker now, Null when there is none
RECURSIVE FirstHolder(_)
FirstHolder(mutationRecords) ==
    IF mutationRecords = <<>> THEN Null
    ELSE IF HasMarker(Head(mutationRecords)) THEN Head(mutationRecords)
    ELSE FirstHolder(Tail(mutationRecords))

-----------------------------------------------------------------------------
(* Listeners *)

Handlers == {"h1", "hThrow"}
EventTypes == {FOCUS_UPDATED, "other"}

\* the handler raises when it is invoked
Throws(h) == h = "hThrow"

\* Array.prototype.filter
RECURSIVE Filter(_, _)
Filter(ls, type) ==
    IF ls = <<>> THEN <<>>
    ELSE IF Head(ls).type = type THEN <<Head(ls)>> \o Filter(Tail(ls), type)
    ELSE Filter(Tail(ls), type)

\* Array.prototype.forEach over the filtered listeners: an exception of a
\* listener leaves the loop and the method
RECURSIVE ForEachListener(_, _, _)
ForEachListener(m, ls, payload) ==
    IF ls = <<>> THEN m
    ELSE LET m1 == [m EXCEPT !.invoked = Append(@,
                        [listener |-> Head(ls).listener, payload |-> payload,
                         focused |-> m.focused_, cursor |-> m.cursor])]
         IN  IF Throws(Head(ls).listener) THEN [m1 EXCEPT !.threw = TRUE]
             ELSE ForEachListener(m1, Tail(ls), payload)

trigger_(m0, type, payload) ==
    LET m == [Called(m0, "trigger_") EXCEPT
                  !.emits = Append(@, [type |-> type, target |-> payload])]
    IN  ForEachListener(m, Filter(m.eventListeners_, type), payload)

addEventListener(m, type, listener) ==
    [m EXCEPT !.eventListeners_ = Append(@, [type |-> type, listener |-> listener])]

\* findIndex with a predicate that compares the type only
RECURSIVE FindTypeFrom(_, _, _, _)
FindTypeFrom(ls, i, type, listener) ==
    IF i > Len(ls) THEN 0
    ELSE IF ls[i].type = type THEN i
    ELSE FindTypeFrom(ls, i + 1, type, listener)

\* Array.prototype.findIndex, 1-based; 0 when nothing matches (-1 in the code)
RECURSIVE FindIndexFrom(_, _, _, _)
FindIndexFrom(ls, i, type, listener) ==
    IF i > Len(ls) THEN 0
    ELSE IF ls[i].type = type /\ ls[i].listener = listener THEN i
    ELSE FindIndexFrom(ls, i + 1, type, listener)

\* Array.prototype.splice(idx, 1)
Splice(ls, idx) == SubSeq(ls, 1, idx - 1) \o SubSeq(ls, idx + 1, Len(ls))

removeEventListener(m, type, listener) ==
    LET idx == FindIndexFrom(m.eventListeners_, 1, type, listener)
    IN  IF idx # 0 THEN [m EXCEPT !.eventListeners_ = Splice(@, idx)] ELSE m

-----------------------------------------------------------------------------
(* Life cycle *)

\* classList.add sets the class attribute (a record, if the overlay is observed)
styleCursor_(m) ==
    LET m1 == IF Observed(Cursor, m.cursor)
              THEN [m EXCEPT !.observers = QueueRecord(@, Cursor)] ELSE m
    IN  hideCursor_(m1)

appendToRoot_(m) == [m EXCEPT !.cursor.inRoot = TRUE]

\* root_.removeChild(cursor_) raises NotFoundError when root_ does not hold it
removeFromRoot_(m) ==
    IF m.cursor.inRoot THEN [m EXCEPT !.cursor.inRoot = FALSE]
    ELSE [m EXCEPT !.threw = TRUE]

\* new MutationObserver(callback) and observer.observe(root_, ...)
observeFocus_(m) ==
    [m EXCEPT !.observers = Append(@, [connected |-> TRUE, queue |-> <<>>]),
              !.observer_ = Len(m.observers) + 1]

\* disconnectFocus_ that returns before it disconnects
disconnectFocusNever_(m) == m

\* observer_.disconnect() stops the observation and empties the record queue
disconnectFocus_(m) ==
    IF m.observer_ = 0 THEN m
    ELSE [m EXCEPT !.observers[m.observer_] = [connected |-> FALSE, queue |-> <<>>]]

\* the callback without the test of freezed_
observerCallbackIgnoringFreeze(m, mutationRecords) ==
    LET target == FirstHolder(mutationRecords)
    IN  IF target # Null
        THEN trigger_(focus([m EXCEPT !.focused_ = target]), FOCUS_UPDATED, target)
        ELSE hideCursor_(m)

\* the callback with the notification under the test of freezed_ too
observerCallbackQuietWhenFrozen(m, mutationRecords) ==
    LET target == FirstHolder(mutationRecords)
    IN  IF target # Null
        THEN LET m1 == [m EXCEPT !.focused_ = target]
             IN  IF ~m1.freezed_ THEN trigger_(focus(m1), FOCUS_UPDATED, target)
                 ELSE m1
        ELSE hideCursor_(m)

\* the callback that leaves the overlay alone while frozen
observerCallbackHideUnlessFrozen(m, mutationRecords) ==
    LET target == FirstHolder(mutationRecords)
    IN  IF target # Null
        THEN LET m1 == [m EXCEPT !.focused_ = target]
                 m2 == IF ~m1.freezed_ THEN focus(m1) ELSE m1
             IN  trigger_(m2, FOCUS_UPDATED, target)
        ELSE IF m.freezed_ THEN m ELSE hideCursor_(m)

\* the callback that notifies the listeners before it repositions the overlay
observerCallbackNotifyFirst(m, mutationRecords) ==
    LET target == FirstHolder(mutationRecords)
    IN  IF target # Null
        THEN LET m1 == trigger_([m EXCEPT !.focused_ = target], FOCUS_UPDATED, target)
             IN  IF ~m1.freezed_ THEN focus(m1) ELSE m1
        ELSE hideCursor_(m)

\* the callback given to MutationObserver
observerCallback(m, mutationRecords) ==
    LET target == FirstHolder(mutationRecords)
    IN  IF target # Null
        THEN LET m1 == [m EXCEPT !.focused_ = target]
                 m2 == IF ~m1.freezed_ THEN focus(m1) ELSE m1
             IN  trigger_(m2, FOCUS_UPDATED, target)
        ELSE hideCursor_(m)

start(m) == focus(observeFocus_(appendToRoot_(styleCursor_(m))))

\* resume that clears the flag and does not reposition
resumeWithoutFocus(m) == [m EXCEPT !.freezed_ = FALSE]

resume(m) == focus([m EXCEPT !.freezed_ = FALSE])

stop(m) ==
    LET m1 == removeFromRoot_(m)
    IN  IF m1.threw THEN m1 ELSE disconnectFocus_(m1)

freeze(m) == [m EXCEPT !.freezed_ = TRUE]

getFocusedElement == focused_

\* the state of the engine's life cycle
Phase ==
    IF observers = <<>> THEN "UNINITIALIZED"
    ELSE IF ~cursor.inRoot THEN "STOPPED"
    ELSE IF freezed_ THEN "FROZEN" ELSE "STARTED"

-----------------------------------------------------------------------------
(* The state machine *)

ClassChanges == {"add", "remove", "other"}
Statuses == {"live", "hidden", "detached"}
Durations == {"", "0.3s"}
UserScrolls == {30}

\* computed border widths of the overlay (top, left), in half pixels:
\* none; 2px and 2.5px; 1.5px and 3px
Borders == {<<0, 0>>, <<4, 5>>, <<3, 6>>}

\* every host: each border, each CSS parser
Hosts == {[borderTop |-> b[1], borderLeft |-> b[2], unitlessZero |-> z] :
             b \in Borders, z \in BOOLEAN}

\* the host the page is followed in full on: a whole and a fractional border
\* width, a CSS parser that follows the grammar
PageHosts == {h \in Hosts : h.borderTop = 4 /\ ~h.unitlessZero}

InitWith(hosts) ==
    /\ marked = [e \in Elems |-> FALSE]
    /\ status = [e \in Movable |-> "live"]
    /\ host \in hosts
    /\ scrollY = 0
    /\ cursor = [display |-> "", width |-> <<>>, height |-> <<>>, transform |-> <<>>,
                 transitionDuration |-> "", inRoot |-> FALSE]
    /\ focused_ = Null
    /\ freezed_ = FALSE
    /\ observer_ = 0
    /\ observers = <<>>
    /\ notifying = FALSE
    /\ eventListeners_ = <<>>
    /\ last = [op |-> "new", arg |-> <<>>, frozen |-> FALSE, calls |-> <<>>,
               emits |-> <<>>, invoked |-> <<>>, threw |-> FALSE, records |-> <<>>,
               target |-> Null, sinceFreeze |-> FALSE]

Init == InitWith(PageHosts)

\* the engine and the window after a call that left the machine m
CommitCall(m, op, arg, records, target, sinceFreeze) ==
    /\ cursor' = m.cursor
    /\ scrollY' = m.scrollY
    /\ focused_' = m.focused_
    /\ freezed_' = m.freezed_
    /\ observer_' = m.observer_
    /\ observers' = m.observers
    /\ eventListeners_' = m.eventListeners_
    /\ last' = [op |-> op, arg |-> arg, frozen |-> freezed_, calls |-> m.calls,
                emits |-> m.emits, invoked |-> m.invoked, threw |-> m.threw,
                records |-> records, target |-> target, sinceFreeze |-> sinceFreeze]

\* the same after a call without arguments
Commit(m, op, records, target, sinceFreeze) ==
    CommitCall(m, op, <<>>, records, target, sinceFreeze)

\* a step of the page, which runs no method of the engine
PageStep(op) ==
    last' = [op |-> op, arg |-> <<>>, frozen |-> freezed_, calls |-> <<>>,
             emits |-> <<>>, invoked |-> <<>>, threw |-> FALSE, records |-> <<>>,
             target |-> Null, sinceFreeze |-> last.sinceFreeze]

\* start() on an engine that was never started (the precondition of start)
FirstStart ==
    /\ ~notifying
    /\ observers = <<>>
    /\ Commit(start(Machine), "start", <<>>, Null, last.sinceFreeze)
    /\ UNCHANGED <<marked, status, host, notifying>>

\* start() on any engine
Start ==
    /\ ~notifying
    /\ Len(observers) < MaxStarts
    /\ Observed(Cursor, cursor) => HasRoom(observers, 1)
    /\ Commit(start(Machine), "start", <<>>, Null, last.sinceFreeze)
    /\ UNCHANGED <<marked, status, host, notifying>>

Resume ==
    /\ ~notifying
    /\ Commit(resume(Machine), "resume", <<>>, Null, last.sinceFreeze)
    /\ UNCHANGED <<marked, status, host, notifying>>

Stop ==
    /\ ~notifying
    /\ Commit(stop(Machine), "stop", <<>>, Null, last.sinceFreeze)
    /\ UNCHANGED <<marked, status, host, notifying>>

Freeze ==
    /\ ~notifying
    /\ Commit(freeze(Machine), "freeze", <<>>, Null, FALSE)
    /\ UNCHANGED <<marked, status, host, notifying>>

Focus ==
    /\ ~notifying
    /\ Commit(focus(Machine), "focus", <<>>, Null, last.sinceFreeze)
    /\ UNCHANGED <<marked, status, host, notifying>>

Place ==
    /\ ~notifying
    /\ Commit(place(Machine), "place", <<>>, Null, last.sinceFreeze)
    /\ UNCHANGED <<marked, status, host, notifying>>

Move ==
    /\ ~notifying
    /\ Commit(move(Machine), "move", <<>>, Null, last.sinceFreeze)
    /\ UNCHANGED <<marked, status, host, notifying>>

AddEventListenerOf(types, handlers, max) ==
    /\ ~notifying
    /\ Len(eventListeners_) < max
    /\ \E type \in types, listener \in handlers :
          CommitCall(addEventListener(Machine, type, listener), "addEventListener",
                     <<type, listener>>, <<>>, Null, last.sinceFreeze)
    /\ UNCHANGED <<marked, status, host, notifying>>

RemoveEventListenerOf(types, handlers) ==
    /\ ~notifying
    /\ \E type \in types, listener \in handlers :
          CommitCall(removeEventListener(Machine, type, listener),
                     "removeEventListener", <<type, listener>>, <<>>, Null,
                     last.sinceFreeze)
    /\ UNCHANGED <<marked, status, host, notifying>>

\* the host delivers the records of the oldest observer that has any; the
\* other observers with records follow before any other step
Notify ==
    \E i \in DOMAIN observers :
        /\ observers[i].queue # <<>>
        /\ \A j \in 1..(i - 1) : observers[j].queue = <<>>
        /\ LET records == observers[i].queue
               m == observerCallback([Machine EXCEPT !.observers[i].queue = <<>>],
                                     records)
               target == FirstHolder(records)
           IN  /\ Commit(m, "notify", records, target,
                         IF target # Null /\ freezed_ THEN TRUE ELSE last.sinceFreeze)
               /\ notifying' = \E j \in DOMAIN m.observers : m.observers[j].queue # <<>>
        /\ UNCHANGED <<marked, status, host>>

\* the page sets the class attribute of e: adds or removes the focus class,
\* or changes some other class
SetClass ==
    /\ ~notifying
    /\ \E e \in Elems, change \in ClassChanges :
          /\ Observed(e, cursor) => HasRoom(observers, 1)
          /\ marked' = [marked EXCEPT ![e] =
                            CASE change = "add" -> TRUE
                              [] change = "remove" -> FALSE
                              [] OTHER -> @]
          /\ observers' = IF Observed(e, cursor) THEN QueueRecord(observers, e)
                          ELSE observers
          /\ PageStep("setClass")
    /\ UNCHANGED <<status, host, scrollY, cursor, focused_, freezed_, observer_,
                   notifying, eventListeners_>>

\* the page hides, shows, removes or inserts an element; no class changes
SetStatus ==
    /\ ~notifying
    /\ \E e \in Movable, st \in Statuses :
          /\ status[e] # st
          /\ status' = [status EXCEPT ![e] = st]
          /\ PageStep("setStatus")
    /\ UNCHANGED <<marked, host, scrollY, cursor, focused_, freezed_, observer_,
                   observers, notifying, eventListeners_>>

\* the user scrolls the window
UserScroll ==
    /\ ~notifying
    /\ \E y \in UserScrolls :
          /\ scrollY # y
          /\ scrollY' = y
          /\ PageStep("scroll")
    /\ UNCHANGED <<marked, status, host, cursor, focused_, freezed_, observer_,
                   observers, notifying, eventListeners_>>

\* the page sets the overlay's transition through getCursor().style
SetDuration ==
    /\ ~notifying
    /\ \E v \in Durations :
          /\ cursor.transitionDuration # v
          /\ cursor' = SetTransitionDuration(cursor, v)
          /\ PageStep("setDuration")
    /\ UNCHANGED <<marked, status, host, scrollY, focused_, freezed_, observer_,
                   observers, notifying, eventListeners_>>

\* the page registers and removes one handler of focus-updated
AddFocusListener == AddEventListenerOf({FOCUS_UPDATED}, {"h1"}, MaxPageListeners)
RemoveFocusListener == RemoveEventListenerOf({FOCUS_UPDATED}, {"h1"})

\* The engine started as its contract asks (once, when not yet started), every
\* other method called in any state, and the page followed in full.
Next ==
    \/ FirstStart \/ Resume \/ Stop \/ Freeze \/ Focus \/ Place \/ Move
    \/ AddFocusListener \/ RemoveFocusListener
    \/ Notify \/ SetClass \/ SetStatus

Spec == Init /\ [][Next]_vars

\* Placement on every host: the page changes classes, scrolls and sets the
\* overlay's transition; no element is hidden or removed, nothing listens.
InitStyle == InitWith(Hosts)

NextStyle ==
    \/ FirstStart \/ Stop \/ Focus \/ Place \/ Move
    \/ Notify \/ SetClass \/ UserScroll \/ SetDuration

SpecStyle == InitStyle /\ [][NextStyle]_vars

\* The listener registry: handlers of both event types, one of which raises,
\* registered and removed in any order around the change batches of a page
\* that changes classes only.
AddEventListener == AddEventListenerOf(EventTypes, Handlers, MaxListeners)
RemoveEventListener == RemoveEventListenerOf(EventTypes, Handlers)

NextEvents ==
    \/ FirstStart
    \/ AddEventListener \/ RemoveEventListener
    \/ Notify \/ SetClass

SpecEvents == Init /\ [][NextEvents]_vars

\* The life cycle in any order: start() on any engine, started or stopped.
NextLifecycle ==
    \/ Start \/ Stop \/ Focus \/ Notify \/ SetClass

SpecLifecycle == Init /\ [][NextLifecycle]_vars

-----------------------------------------------------------------------------
(* Properties *)

Visible == cursor.display # "none"

\* the overlay's size and translate offset
Geometry(c) == <<c.width, c.height, c.transform>>

\* every change batch has been processed
Settled == \A i \in DOMAIN observers : observers[i].queue = <<>>

\* the batch the next Notify step processes
PendingBatch ==
    LET i == CHOOSE k \in DOMAIN observers :
                 /\ observers[k].queue # <<>>
                 /\ \A j \in 1..(k - 1) : observers[j].queue = <<>>
    IN  observers[i].queue

\* the batch b has a record whose target carries the marker
HasHolder(b) == \E k \in 1..Len(b) : HasMarker(b[k])

\* how often name is in the trace of calls
CountCalls(calls, name) == Cardinality({k \in 1..Len(calls) : calls[k] = name})

\* the overlay sits on rectangle r, its offset less the whole pixels of its border
SitsOn(c, r) ==
    /\ c.width = <<r.width>>
    /\ c.height = <<r.height>>
    /\ c.transform = <<r.left - (host.borderLeft \div 2), r.top - (host.borderTop \div 2)>>

\* C1: on a started, non-frozen engine, once a change batch has been processed
\* and none is pending, the overlay is visible if and only if an attached
\* element carries the focus marker (stated where every element is attached
\* and only elements of the observed subtree carry the marker).
C1_VisibleIffLiveHolder ==
    (/\ Phase = "STARTED" /\ last.op = "notify" /\ ~last.frozen /\ Settled
     /\ ~marked["e3"] /\ \A e \in Elems : Rendered(e))
    => (Visible <=> \E e \in Elems : marked[e] /\ isInDocumentBody(e))

\* C2: a batch with a marker-holding target processed while frozen sets the
\* tracked reference to that target and leaves the overlay's width, height and
\* translate offset and the scroll position as they were.
C2_FrozenBatchKeepsGeometry ==
    [][(last'.op = "notify" /\ freezed_ /\ HasHolder(PendingBatch))
       => /\ focused_' = last'.target
          /\ HasMarker(focused_')
          /\ Geometry(cursor') = Geometry(cursor)
          /\ scrollY' = scrollY]_vars

\* C2 witness: a frozen batch moved the tracked reference to an element the
\* overlay does not sit on.
C2_Witness ==
    /\ last.op = "notify" /\ last.frozen /\ Phase = "FROZEN"
    /\ last.target = "e2" /\ focused_ = "e2"
    /\ Visible /\ cursor.width = <<LayoutRect("e1").width>>

\* C3 as stated: resume() after batches processed while frozen clears the flag,
\* performs focus() once and leaves the overlay visible on the rectangle of the
\* latest tracked target.
C3_ResumeShowsLatestTarget ==
    (/\ last.op = "resume" /\ last.frozen /\ last.sinceFreeze
     /\ cursor.inRoot /\ observers # <<>>)
    => /\ ~freezed_
       /\ CountCalls(last.calls, "focus") = 1
       /\ Visible
       /\ SitsOn(cursor, getAbsoluteElementRect(focused_, scrollY))

\* C3 amended: resume() on a started, frozen engine clears the flag and performs
\* focus() once; if the tracked target is then attached and carries the marker,
\* the overlay is visible on that target's rectangle.
C3_ResumeShowsLiveMarkedTarget ==
    (/\ last.op = "resume" /\ last.frozen
     /\ cursor.inRoot /\ observers # <<>>)
    => /\ ~freezed_
       /\ CountCalls(last.calls, "focus") = 1
       /\ (isInDocumentBody(focused_) /\ HasMarker(focused_))
            => (Visible /\ SitsOn(cursor, LayoutRect(focused_)))

\* C3 witness: resume() after a frozen batch, with the tracked target attached
\* and marked.
C3_Witness ==
    /\ last.op = "resume" /\ last.frozen /\ last.sinceFreeze
    /\ cursor.inRoot /\ observers # <<>>
    /\ focused_ = "e2" /\ isInDocumentBody(focused_) /\ HasMarker(focused_)
    /\ Visible /\ SitsOn(cursor, LayoutRect("e2"))

C5_NotStartedOpsAreNoOps ==
    [][(Phase \in {"UNINITIALIZED", "STOPPED"}
        /\ last'.op \in {"focus", "place", "move", "resume"})
       => /\ Geometry(cursor') = Geometry(cursor)
          /\ scrollY' = scrollY]_vars

\* C6: stop() on a stopped engine completes without raising an error.
C6_SecondStopCompletes ==
    (last.op = "stop" /\ Phase = "STOPPED") => ~last.threw

\* C7: every call of place(), made directly or by focus(), leaves the
\* overlay's transition duration as it was before the call.
C7_PlaceKeepsTransition ==
    [][CountCalls(last'.calls, "place") > 0
       => cursor'.transitionDuration = cursor.transitionDuration]_vars

\* C7 witness: place() showed the overlay on a host whose parser takes the
\* unitless '0', with a transition set.
C7_Witness ==
    /\ last.op = "place" /\ host.unitlessZero /\ cursor.transitionDuration = "0.3s"
    /\ Visible /\ cursor.width # <<>>

\* C8: after place() on a started engine with a target that carries the
\* marker, the overlay has the target rectangle's width and height and the
\* translate offset (left - borderLeft, top - borderTop).
C8_PlaceMatchesRect ==
    (last.op = "place" /\ Phase = "STARTED" /\ HasMarker(EffectiveTarget(Machine)))
    => LET r == LayoutRect(EffectiveTarget(Machine))
       IN  /\ cursor.width = <<r.width>>
           /\ cursor.height = <<r.height>>
           /\ cursor.transform # <<>>
           /\ 2 * cursor.transform[1] = 2 * r.left - host.borderLeft
           /\ 2 * cursor.transform[2] = 2 * r.top - host.borderTop

\* C9: after a batch is processed the tracked reference is the target of the
\* first record, in the order of the records, whose target carries the marker;
\* without such a record it is what it was.
C9_TracksFirstHolder ==
    [][last'.op = "notify"
       => LET b == PendingBatch
          IN  IF HasHolder(b)
              THEN \E k \in 1..Len(b) :
                      /\ HasMarker(b[k])
                      /\ \A j \in 1..(k - 1) : ~HasMarker(b[j])
                      /\ focused_' = b[k]
              ELSE focused_' = focused_]_vars

\* C9 witness: of two marked targets in one batch the first record's target is
\* tracked, though the other comes first in the document.
C9_Witness ==
    /\ last.op = "notify" /\ last.records = <<"e2", "e1">>
    /\ marked["e1"] /\ marked["e2"] /\ getFocusedElement = "e2"

\* C10: a processed batch with a marker-holding target emits focus-updated
\* once, with the selected target as payload, frozen or not; a batch without
\* one emits nothing.
C10_OneNotificationPerHolderBatch ==
    [][last'.op = "notify"
       => IF HasHolder(PendingBatch)
          THEN /\ last'.emits = <<[type |-> FOCUS_UPDATED, target |-> focused_']>>
               /\ \A k \in 1..Len(last'.invoked) : last'.invoked[k].payload = focused_'
          ELSE last'.emits = <<>> /\ last'.invoked = <<>>]_vars

\* C10 witness: a batch processed while frozen reached a registered listener.
C10_Witness ==
    /\ last.op = "notify" /\ last.frozen /\ last.target # Null
    /\ Len(last.emits) = 1 /\ Len(last.invoked) = 1

\* the engine is started: the overlay is in the root and an observer exists
Started == cursor.inRoot /\ observers # <<>>

\* the sequence of the handlers that a call invoked
InvokedListeners(invoked) == [k \in DOMAIN invoked |-> invoked[k].listener]

\* the handlers registered for type, in the order of their registration
RECURSIVE RegisteredFor(_, _)
RegisteredFor(ls, type) ==
    IF ls = <<>> THEN <<>>
    ELSE (IF Head(ls).type = type THEN <<Head(ls).listener>> ELSE <<>>)
         \o RegisteredFor(Tail(ls), type)

\* C11: after focus() on a started engine whose tracked element is not attached
\* (removed or not rendered), the tracked element is not the element the
\* overlay shows: if an attached element of the observed subtree carries the
\* marker the overlay is visible on the rectangle of such an element, and if
\* none does the overlay is hidden (stated where no element outside the
\* subtree carries the marker).
C11_DetachedTargetNeverUsed ==
    (/\ last.op = "focus" /\ Started /\ ~marked["e3"]
     /\ focused_ # Null /\ ~isInDocumentBody(focused_))
    => IF \E e \in InRoot : marked[e] /\ isInDocumentBody(e)
       THEN /\ Visible
            /\ \E e \in InRoot : /\ marked[e] /\ isInDocumentBody(e)
                                 /\ SitsOn(cursor, LayoutRect(e))
       ELSE ~Visible

\* C12: a notification invokes exactly the handlers registered for
\* focus-updated, in the order of their registration and as often as they are
\* registered, each with the payload; handlers of other types are not invoked.
C12_InvokesRegisteredInOrder ==
    (last.op = "notify" /\ last.emits # <<>>)
    => /\ InvokedListeners(last.invoked) = RegisteredFor(eventListeners_, FOCUS_UPDATED)
       /\ \A k \in DOMAIN last.invoked : last.invoked[k].payload = last.target

\* C13: removeEventListener(type, handler) raises no error; if an entry has
\* both that type and that handler, one such entry (the first) leaves the
\* registry and the other entries keep their order; if none has, the registry
\* is as it was.
C13_RemoveExactMatchOnly ==
    [][last'.op = "removeEventListener"
       => LET ls == eventListeners_
              matches == {i \in DOMAIN ls : /\ ls[i].type = last'.arg[1]
                                            /\ ls[i].listener = last'.arg[2]}
          IN  /\ ~last'.threw
              /\ IF matches = {} THEN eventListeners_' = ls
                 ELSE \E i \in matches :
                         /\ \A j \in matches : i <= j
                         /\ Len(eventListeners_') = Len(ls) - 1
                         /\ \A k \in 1..(i - 1) : eventListeners_'[k] = ls[k]
                         /\ \A k \in i..(Len(ls) - 1) : eventListeners_'[k] = ls[k + 1]]_vars

\* C13 witness: a removal whose type matches one entry and whose handler
\* matches the other left both entries in place.
C13_Witness ==
    /\ last.op = "removeEventListener" /\ last.arg = <<FOCUS_UPDATED, "h1">>
    /\ ~last.threw
    /\ eventListeners_ = <<[type |-> "other", listener |-> "h1"],
                           [type |-> FOCUS_UPDATED, listener |-> "hThrow"]>>

\* C14: when a handler of focus-updated raises during a notification, the
\* handlers registered after it are invoked for that notification all the same.
C14_ThrowDoesNotStopLaterHandlers ==
    (last.op = "notify" /\ last.threw)
    => Len(last.invoked) = Len(RegisteredFor(eventListeners_, FOCUS_UPDATED))

\* C15: resume() on a started engine that is not frozen leaves the overlay's
\* visibility, size and translate offset and the scroll position as they were
\* (stated where no change batch is pending and no element outside the
\* observed subtree carries the marker).
C15_ResumeNotFrozenIsNoOp ==
    [][(last'.op = "resume" /\ Phase = "STARTED" /\ Settled /\ ~marked["e3"])
       => /\ cursor'.display = cursor.display
          /\ Geometry(cursor') = Geometry(cursor)
          /\ scrollY' = scrollY]_vars

\* C16: focus(), called directly or by resume(), performs place() and not
\* move() when there is no tracked element or the overlay is hidden, and
\* move() and not place() when there is a tracked element and the overlay is
\* visible.
C16_FocusPlacesOrMoves ==
    [][last'.op \in {"focus", "resume"}
       => /\ CountCalls(last'.calls, "focus") = 1
          /\ IF focused_ = Null \/ cursor.display = "none"
             THEN /\ CountCalls(last'.calls, "place") = 1
                  /\ CountCalls(last'.calls, "move") = 0
             ELSE /\ CountCalls(last'.calls, "move") = 1
                  /\ CountCalls(last'.calls, "place") = 0]_vars

\* C16 witness: focus() on a tracked element with the overlay visible moved it.
C16_Witness ==
    /\ last.op = "focus" /\ last.calls = <<"focus", "move">>
    /\ focused_ # Null /\ Visible /\ SitsOn(cursor, LayoutRect(focused_))

\* C17: after a batch none of whose targets carries the marker the overlay is
\* hidden, whether the engine is frozen or not.
C17_NoTargetBatchHides ==
    [][(last'.op = "notify" /\ ~HasHolder(PendingBatch)) => ~Visible']_vars

\* C17 witness: a batch without a marker holder, processed while frozen, hid
\* an overlay that had been placed.
C17_Witness ==
    /\ last.op = "notify" /\ last.frozen /\ Phase = "FROZEN"
    /\ last.target = Null /\ last.records # <<>>
    /\ ~Visible /\ cursor.width # <<>>

\* C18: a batch with a marker-holding target on a started, non-frozen engine
\* sets the tracked reference, then performs focus(), then notifies: every
\* listener is invoked with getFocusedElement() equal to its payload, the
\* target, and with the overlay as the batch leaves it.
C18_TrackThenFocusThenNotify ==
    [][(last'.op = "notify" /\ Phase = "STARTED" /\ HasHolder(PendingBatch))
       => /\ Len(last'.calls) = 3
          /\ last'.calls[1] = "focus"
          /\ last'.calls[2] \in {"place", "move"}
          /\ last'.calls[3] = "trigger_"
          /\ focused_' = last'.target
          /\ \A k \in DOMAIN last'.invoked :
                /\ last'.invoked[k].payload = last'.target
                /\ last'.invoked[k].focused = last'.target
                /\ last'.invoked[k].cursor = cursor']_vars

\* C18 witness: a listener was invoked for e2 on a non-frozen engine with the
\* overlay on e2.
C18_Witness ==
    /\ last.op = "notify" /\ ~last.frozen /\ Phase = "STARTED"
    /\ Len(last.invoked) = 1 /\ last.invoked[1].focused = "e2"
    /\ last.invoked[1].cursor = cursor
    /\ Visible /\ SitsOn(cursor, LayoutRect("e2"))

\* C19: at most one observer that the engine created is active, and none is
\* after stop().
C19_AtMostOneObserver ==
    LET active == {i \in DOMAIN observers : observers[i].connected}
    IN  /\ Cardinality(active) <= 1
        /\ last.op = "stop" => active = {}

\* C20: the tracked reference changes only when a batch with a marker-holding
\* target is processed; start(), stop(), freeze(), resume(), focus(), place(),
\* move() and a batch without such a target leave it as it was.
C20_TrackedChangesOnlyByHolderBatch ==
    [][/\ focused_' # focused_ => (last'.op = "notify" /\ HasHolder(PendingBatch))
       /\ last'.op \in {"start", "stop", "freeze", "resume", "focus", "place", "move"}
            => getFocusedElement' = getFocusedElement]_vars

\* C20 witness: place() or move() put the overlay on e3, found by the fallback
\* query, while the tracked element e1 is not attached and stays tracked.
C20_Witness ==
    /\ last.op \in {"focus", "place", "move"} /\ Started
    /\ getFocusedElement = "e1" /\ ~isInDocumentBody("e1")
    /\ EffectiveTarget(Machine) = "e3"
    /\ Visible /\ SitsOn(cursor, LayoutRect("e3"))

====
